---- MODULE Spec2Model ----
(***************************************************************************)
(* Model of the LoadLink Discord app.                                      *)
(*                                                                         *)
(*   src/core/database.py   Machine.save / Machine.create / Machine.claim  *)
(*                          and the Discord (room default) table           *)
(*   src/discord_bot.py     RoomSelect, RoomView, PaginationButton, the    *)
(*                          room commands and the machines command         *)
(*                                                                         *)
(* Machine.claim is a lookup (one SELECT) followed by a write (one INSERT  *)
(* or UPDATE); the clock is read in between.  Callers run against one      *)
(* shared database, so the three steps of one call interleave with the     *)
(* steps of the other calls.                                               *)
(***************************************************************************)
EXTENDS Integers, Sequences, FiniteSets

\* ------------------------------------------------------------------ bounds

\* The clock takes the values 0..MaxClock.
MaxClock == 1

\* Snapshots report up to AttributionJump + MaxExcess minutes.
MaxExcess == 1

\* ------------------------------------------------------- program constants

\* database.py:163  data["timeRemaining"] - existing.timeRemaining > 5
AttributionJump == 5

\* database.py:158, 164  the sentinel written to lastUser
Unknown == "Unknown"

\* discord_bot.py:30  self.page_size
PageSize == 25

\* ---------------------------------------------------------------- domains

\* Callers of Machine.claim that share the database.
Procs == {"p1", "p2"}
Main == "p1"

OpaqueIds == {"W1", "W2"}

\* timeRemaining of a snapshot: a negative value, zero, and values around
\* the attribution jump.
TimeValues == {-1, 0} \cup (AttributionJump .. (AttributionJump + MaxExcess))

\* A snapshot need not carry a lastUser key (the dict is passed as **data).
Absent == "<absent>"
LastUserValues == {"Alice", Unknown, Absent}

\* One operational attribute stands for those claim never reads
\* (mode, doorClosed, available, ...).
Modes == {"idle", "running"}

Snapshots ==
    [opaqueId : OpaqueIds, timeRemaining : TimeValues,
     lastUser : LastUserValues, mode : Modes]

\* The snapshots two concurrent callers draw from: both machines, a zero and
\* a jump of timeRemaining.
RaceSnapshots ==
    {d \in Snapshots : /\ d.timeRemaining \in {0, AttributionJump + 1}
                       /\ d.lastUser = Unknown
                       /\ d.mode = "idle"}

\* Discord users and the guilds they write in.  User ids and guild ids are
\* distinct snowflakes.
Users == {"u1", "u2"}
Guilds == {"g1"}
NoGuild == "<dm>"

\* The rooms a directory can hold, in the order of their labels: enough of
\* them for three pages of a select menu.
RoomOrder ==
    <<"r1", "r2", "r3", "r4", "r5", "r6", "r7", "r8", "r9",
      "r10", "r11", "r12", "r13", "r14", "r15", "r16", "r17", "r18",
      "r19", "r20", "r21", "r22", "r23", "r24", "r25", "r26", "r27",
      "r28", "r29", "r30", "r31", "r32", "r33", "r34", "r35", "r36",
      "r37", "r38", "r39", "r40", "r41", "r42", "r43", "r44", "r45",
      "r46", "r47", "r48", "r49", "r50", "r51">>
RoomIds == {RoomOrder[i] : i \in 1..Len(RoomOrder)}

\* The directory with the first n rooms.
FirstRooms(n) == {RoomOrder[i] : i \in 1..n}

\* The directories of a small site: every choice of two rooms.
Directories == SUBSET FirstRooms(2)

\* Directories that fill no page, one page, and one room more than one and
\* than two pages.
PagedDirectories ==
    {FirstRooms(n) : n \in {0, 1, PageSize + 1, 2 * PageSize + 1}}

\* Machine.roomId: a machine stands in one room, and every snapshot of it
\* carries that room.
MachineRoom == [id \in OpaqueIds |-> IF id = "W1" THEN "r1" ELSE "r2"]

NoView == [none |-> TRUE]
NoReply == [text |-> "", room |-> ""]

\* get_or_none found nothing / no call made yet.
NoRow == [none |-> TRUE]
NoData == [none |-> TRUE]

\* ------------------------------------------------------------------ state

VARIABLES
    machines,   \* the Machine table: machines[id] are the rows whose opaqueId is
                \* id, in the order of their auto-increment primary key
    clock,      \* datetime.datetime.now()
    pc,         \* pc[p]: where caller p is in Machine.claim, or how its last call ended
    snapshot,   \* snapshot[p]: the dict as it was passed to claim
    data,       \* data[p]: the dict as claim has changed it so far
    existing,   \* existing[p]: what get_or_none returned
    rooms,      \* the Room table: the roomIds it holds
    discord,    \* the Discord table: rows of discordId and roomId
    view,       \* view[u]: the RoomView last sent to user u
    reply       \* reply[u]: the last message sent to user u

\* The state of the reconciliation, and the state of the chat commands.
mvars == <<machines, clock, pc, snapshot, data, existing>>
rvars == <<rooms, discord, view, reply>>
vars == <<machines, clock, pc, snapshot, data, existing,
          rooms, discord, view, reply>>

\* --------------------------------------------------------- the Machine table

\* The rows WHERE opaqueId = id, in the order of their primary key.
RowsOf(tbl, id) == tbl[id]

\* cls.get_or_none(cls.opaqueId == opaque_id): SELECT ... LIMIT 1 without an
\* ORDER BY; opaqueId has no index, so the table is scanned in the order of
\* its primary key and the first matching row is returned.
GetOrNone(tbl, id) ==
    IF RowsOf(tbl, id) = <<>> THEN NoRow ELSE Head(RowsOf(tbl, id))

\* Of the row it found, claim reads timeRemaining and nothing else.
Read(r) == IF r = NoRow THEN NoRow ELSE [timeRemaining |-> r.timeRemaining]

\* The row INSERTed by super().create(**query).
NewRow(d) ==
    [opaqueId |-> d.opaqueId, timeRemaining |-> d.timeRemaining,
     lastUser |-> d.lastUser, lastUpdated |-> d.lastUpdated, mode |-> d.mode]

\* Machine.create: the check of database.py:147 ...
CreateRejects(d) == d.timeRemaining < 0

\* Mutant: the INSERT is lost.
CreateRowsLost(tbl, d) == tbl

\* ... and the INSERT: the new row takes the next primary key.
CreateRows(tbl, d) ==
    [tbl EXCEPT ![d.opaqueId] = Append(@, NewRow(d))]

\* Mutant: the UPDATE sets timeRemaining, lastUser and lastUpdated and leaves
\* the other attributes of the row as they were.
UpdateRowKeepsMode(r, d) ==
    [opaqueId |-> d.opaqueId, timeRemaining |-> d.timeRemaining,
     lastUser |-> IF d.lastUser = Absent THEN r.lastUser ELSE d.lastUser,
     lastUpdated |-> d.lastUpdated, mode |-> r.mode]

\* UPDATE machine SET <every key of data>.  A key the dict does not carry is
\* not SET.  The query is built by cls.update and does not pass through
\* Machine.save.
UpdateRow(r, d) ==
    [opaqueId |-> d.opaqueId, timeRemaining |-> d.timeRemaining,
     lastUser |-> IF d.lastUser = Absent THEN r.lastUser ELSE d.lastUser,
     lastUpdated |-> d.lastUpdated, mode |-> d.mode]

\* Mutant: the UPDATE without its WHERE rewrites every row of the table.
UpdateRowsEverywhere(tbl, d, id) ==
    [k \in DOMAIN tbl |-> [i \in 1..Len(tbl[k]) |-> UpdateRow(tbl[k][i], d)]]

\* Mutant: the matching rows are deleted.
UpdateRowsDeletes(tbl, d, id) ==
    [k \in DOMAIN tbl |-> IF k = id THEN <<>> ELSE tbl[k]]

\* ... WHERE opaqueId = id: every matching row is rewritten.
UpdateRows(tbl, d, id) ==
    [k \in DOMAIN tbl |->
        IF k = id
        THEN [i \in 1..Len(tbl[k]) |-> UpdateRow(tbl[k][i], d)]
        ELSE tbl[k]]

\* ------------------------------------------------------------ Machine.claim

\* Mutant: the first sighting keeps the lastUser the snapshot carries.
StampCreateKeepsUser(d, now) ==
    [opaqueId |-> d.opaqueId, timeRemaining |-> d.timeRemaining,
     lastUser |-> d.lastUser, lastUpdated |-> now, mode |-> d.mode]

\* database.py:157-158
StampCreate(d, now) ==
    [opaqueId |-> d.opaqueId, timeRemaining |-> d.timeRemaining,
     lastUser |-> Unknown, lastUpdated |-> now, mode |-> d.mode]

\* Mutant: a rise of exactly 5 already counts as a jump.
JumpsUpInclusive(d, e) == d.timeRemaining - e.timeRemaining >= AttributionJump

\* database.py:163
JumpsUp(d, e) == d.timeRemaining - e.timeRemaining > AttributionJump

\* Mutant: the update never attributes a jump to "Unknown".
StampUpdateNoAttribution(d, e, now) ==
    [opaqueId |-> d.opaqueId, timeRemaining |-> d.timeRemaining,
     lastUser |-> d.lastUser, lastUpdated |-> now, mode |-> d.mode]

\* database.py:162-164
StampUpdate(d, e, now) ==
    [opaqueId |-> d.opaqueId, timeRemaining |-> d.timeRemaining,
     lastUser |-> IF JumpsUp(d, e) THEN Unknown ELSE d.lastUser,
     lastUpdated |-> now, mode |-> d.mode]

\* Mutant: every snapshot of a known machine counts as a change.
ChangedAlways(d, e) == TRUE

\* database.py:161
Changed(d, e) == d.timeRemaining # e.timeRemaining

\* A caller not inside claim: it has made no call yet, or its last call ended
\* with a return value or with the exception of Machine.create.
Returned == {"idle", "created", "updated", "unchanged", "rejected"}

\* database.py:153-154  the call begins: opaque_id and the lookup.
Lookup(p, S) ==
    /\ pc[p] \in Returned
    /\ \E d \in S :
        /\ snapshot' = [snapshot EXCEPT ![p] = d]
        /\ data' = [data EXCEPT ![p] = d]
        /\ existing' = [existing EXCEPT ![p] = Read(GetOrNone(machines, d.opaqueId))]
    /\ pc' = [pc EXCEPT ![p] = "looked"]
    /\ UNCHANGED <<machines, clock>>
    /\ UNCHANGED rvars

\* database.py:156-158  no record: stamp the dict, go on to create.
DecideCreate(p) ==
    /\ pc[p] = "looked"
    /\ existing[p] = NoRow
    /\ data' = [data EXCEPT ![p] = StampCreate(data[p], clock)]
    /\ pc' = [pc EXCEPT ![p] = "create"]
    /\ UNCHANGED <<machines, clock, snapshot, existing>>
    /\ UNCHANGED rvars

\* database.py:161-164  timeRemaining differs: stamp the dict, go on to update.
DecideUpdate(p) ==
    /\ pc[p] = "looked"
    /\ existing[p] # NoRow
    /\ Changed(data[p], existing[p])
    /\ data' = [data EXCEPT ![p] = StampUpdate(data[p], existing[p], clock)]
    /\ pc' = [pc EXCEPT ![p] = "update"]
    /\ UNCHANGED <<machines, clock, snapshot, existing>>
    /\ UNCHANGED rvars

\* database.py:167  same timeRemaining: return False.
NoChange(p) ==
    /\ pc[p] = "looked"
    /\ existing[p] # NoRow
    /\ ~Changed(data[p], existing[p])
    /\ pc' = [pc EXCEPT ![p] = "unchanged"]
    /\ UNCHANGED <<machines, clock, snapshot, data, existing>>
    /\ UNCHANGED rvars

\* database.py:159-160  cls.create(**data); return True -- or ValueError.
Create(p) ==
    /\ pc[p] = "create"
    /\ IF CreateRejects(data[p])
       THEN /\ pc' = [pc EXCEPT ![p] = "rejected"]
            /\ UNCHANGED machines
       ELSE /\ machines' = CreateRows(machines, data[p])
            /\ pc' = [pc EXCEPT ![p] = "created"]
    /\ UNCHANGED <<clock, snapshot, data, existing>>
    /\ UNCHANGED rvars

\* database.py:165-166  cls.update(**data).where(...).execute(); return True.
Update(p) ==
    /\ pc[p] = "update"
    /\ machines' = UpdateRows(machines, data[p], data[p].opaqueId)
    /\ pc' = [pc EXCEPT ![p] = "updated"]
    /\ UNCHANGED <<clock, snapshot, data, existing>>
    /\ UNCHANGED rvars

\* Time passes.
Tick ==
    /\ clock < MaxClock
    /\ clock' = clock + 1
    /\ UNCHANGED <<machines, pc, snapshot, data, existing>>
    /\ UNCHANGED rvars

Init ==
    /\ machines = [id \in OpaqueIds |-> <<>>]
    /\ clock = 0
    /\ pc = [p \in Procs |-> "idle"]
    /\ snapshot = [p \in Procs |-> NoData]
    /\ data = [p \in Procs |-> NoData]
    /\ existing = [p \in Procs |-> NoRow]
    /\ rooms = {}
    /\ discord = {}
    /\ view = [u \in Users |-> NoView]
    /\ reply = [u \in Users |-> NoReply]

\* ------------------------------------------------------- the room commands

\* Room.select().order_by(Room.label)
RoomsByLabel(rs) == SelectSeq(RoomOrder, LAMBDA r : r \in rs)

Max(a, b) == IF a >= b THEN a ELSE b
Least(a, b) == IF a <= b THEN a ELSE b

\* discord_bot.py:33-35
TotalPages(n) == Max((n + PageSize - 1) \div PageSize, 1)

\* discord_bot.py:37
ClampPage(page, total) == Max(0, Least(page, total - 1))

\* discord_bot.py:40-42  self.rooms[start_idx:end_idx]
PageRooms(rs, page) ==
    LET all == RoomsByLabel(rs)
        first == page * PageSize + 1
        last == Least(page * PageSize + PageSize, Len(all))
    IN  IF first > last THEN <<>> ELSE SubSeq(all, first, last)

\* discord_bot.py:27-60  RoomSelect.__init__: the values the menu offers are
\* the rooms of its page, or the placeholder "none" when there are none.
RoomSelectInit(is_guild, page) ==
    LET total == TotalPages(Cardinality(rooms))
        current == ClampPage(page, total)
        shown == PageRooms(rooms, current)
    IN  [is_guild |-> is_guild,
         total_pages |-> total,
         current_page |-> current,
         options |-> IF shown = <<>> THEN {"none"}
                     ELSE {shown[i] : i \in 1..Len(shown)},
         disabled |-> shown = <<>>]

\* discord_bot.py:84-96  RoomView.__init__; guild_id is the guild of the
\* channel the view is sent to, which every interaction with it carries.
RoomViewInit(is_guild, g) ==
    [is_guild |-> is_guild,
     current_page |-> 0,
     room_select |-> RoomSelectInit(is_guild, 0),
     buttons |-> RoomSelectInit(is_guild, 0).total_pages > 1,
     guild_id |-> g]

\* discord_bot.py:156-163  /set_user_room, in a guild or in a direct message.
SetUserRoom(u) ==
    /\ \E g \in Guilds \cup {NoGuild} :
          view' = [view EXCEPT ![u] = RoomViewInit(FALSE, g)]
    /\ reply' = [reply EXCEPT ![u] = [text |-> "select", room |-> ""]]
    /\ UNCHANGED <<rooms, discord>>
    /\ UNCHANGED mvars

\* discord_bot.py:145-153  /set_server_room: an administrator of a guild.
SetServerRoom(u) ==
    /\ \E g \in Guilds :
          view' = [view EXCEPT ![u] = RoomViewInit(TRUE, g)]
    /\ reply' = [reply EXCEPT ![u] = [text |-> "select", room |-> ""]]
    /\ UNCHANGED <<rooms, discord>>
    /\ UNCHANGED mvars

\* discord_bot.py:69  whom the association is for.
DiscordId(u) == IF view[u].is_guild THEN view[u].guild_id ELSE u

\* Mutant: the association is inserted and the old row is kept.
ReplaceKeepsOld(tbl, id, room) ==
    tbl \cup {[discordId |-> id, roomId |-> room]}

\* Discord.replace(discordId=..., roomId=...).execute(): REPLACE INTO deletes
\* the row of the same primary key, then inserts.
Replace(tbl, id, room) ==
    {r \in tbl : r.discordId # id} \cup {[discordId |-> id, roomId |-> room]}

\* discord_bot.py:62-80  RoomSelect.callback with self.values[0] = v, one of
\* the menu's options; V bounds the options the user picks from.
RoomSelectCallback(u, V) ==
    /\ view[u] # NoView
    /\ \E v \in view[u].room_select.options \cap V :
          IF v = "none"
          THEN /\ reply' = [reply EXCEPT ![u] = [text |-> "no rooms", room |-> ""]]
               /\ UNCHANGED discord
          ELSE /\ discord' = Replace(discord, DiscordId(u), v)
               /\ reply' = [reply EXCEPT ![u] = [text |-> "set", room |-> v]]
    /\ UNCHANGED <<rooms, view>>
    /\ UNCHANGED mvars

\* discord_bot.py:118-137  PaginationButton.callback.  The buttons are on the
\* view only if its first menu had more than one page (lines 94-96).  The new
\* page is computed from the view's page and the page count of the menu being
\* replaced; the new menu counts the rooms again.
PaginationButtonCallback(u, is_next) ==
    /\ view[u] # NoView
    /\ view[u].buttons
    /\ LET select_menu == view[u].room_select
           new_page == IF is_next
                       THEN (view[u].current_page + 1) % select_menu.total_pages
                       ELSE (view[u].current_page - 1) % select_menu.total_pages
       IN  view' = [view EXCEPT ![u] =
                      [view[u] EXCEPT
                          !.current_page = new_page,
                          !.room_select = RoomSelectInit(view[u].is_guild, new_page)]]
    /\ UNCHANGED <<rooms, discord, reply>>
    /\ UNCHANGED mvars

\* Discord.get_or_none(Discord.discordId == id): discordId is the primary key.
DiscordRows(tbl, id) == {r \in tbl : r.discordId = id}

\* Mutant: the guild's association is looked up before the user's own.
UserDefaultGuildFirst(tbl, u, g) ==
    IF g # NoGuild /\ DiscordRows(tbl, g) # {}
    THEN DiscordRows(tbl, g)
    ELSE DiscordRows(tbl, u)

\* discord_bot.py:208-215  the user's own association, else the guild's when
\* the command is used in a guild; the empty set stands for None.
UserDefault(tbl, u, g) ==
    IF DiscordRows(tbl, u) # {}
    THEN DiscordRows(tbl, u)
    ELSE IF g # NoGuild THEN DiscordRows(tbl, g) ELSE {}

\* discord_bot.py:259-264  one line of the embed: the status, the minutes
\* when there are any, and the time of the last update.
StatusLine(r) ==
    [status |-> IF r.timeRemaining = 0 THEN "available" ELSE "in use",
     minutes |-> IF r.timeRemaining > 0 THEN r.timeRemaining ELSE 0,
     timestamp |-> r.lastUpdated]

\* discord_bot.py:232-288  the embed: the lines of the machines WHERE roomId
\* is the room, per machine in the order of their primary key.
Embed(tbl, room) ==
    [id \in {k \in DOMAIN tbl : MachineRoom[k] = room} |->
        [i \in 1..Len(tbl[id]) |-> StatusLine(tbl[id][i])]]

\* Mutant: the command removes the machine records of a room that is gone.
MachinesInPurges(u, g) ==
    LET user_default == UserDefault(discord, u, g)
    IN  /\ IF user_default = {}
           THEN /\ view' = [view EXCEPT ![u] = RoomViewInit(FALSE, g)]
                /\ reply' = [reply EXCEPT ![u] = [text |-> "no default", room |-> ""]]
                /\ UNCHANGED machines
           ELSE LET roomId == (CHOOSE r \in user_default : TRUE).roomId
                IN  IF roomId \notin rooms
                    THEN /\ reply' = [reply EXCEPT ![u] = [text |-> "gone", room |-> ""]]
                         /\ machines' = [id \in DOMAIN machines |->
                                 IF MachineRoom[id] = roomId THEN <<>>
                                 ELSE machines[id]]
                         /\ UNCHANGED view
                    ELSE /\ reply' = [reply EXCEPT ![u] =
                                [text |-> "status", room |-> roomId,
                                 embed |-> Embed(machines, roomId)]]
                         /\ UNCHANGED <<view, machines>>
        /\ UNCHANGED <<rooms, discord>>
        /\ UNCHANGED <<clock, pc, snapshot, data, existing>>

\* discord_bot.py:206-290  /machines used by u in guild g, or in a direct
\* message.
MachinesIn(u, g) ==
    LET user_default == UserDefault(discord, u, g)
    IN  /\ IF user_default = {}
           THEN /\ view' = [view EXCEPT ![u] = RoomViewInit(FALSE, g)]
                /\ reply' = [reply EXCEPT ![u] = [text |-> "no default", room |-> ""]]
           ELSE LET roomId == (CHOOSE r \in user_default : TRUE).roomId
                IN  IF roomId \notin rooms
                    THEN /\ reply' = [reply EXCEPT ![u] = [text |-> "gone", room |-> ""]]
                         /\ UNCHANGED view
                    ELSE /\ reply' = [reply EXCEPT ![u] =
                                [text |-> "status", room |-> roomId,
                                 embed |-> Embed(machines, roomId)]]
                         /\ UNCHANGED view
        /\ UNCHANGED <<rooms, discord>>
        /\ UNCHANGED mvars

MachinesCommand(u) == \E g \in Guilds \cup {NoGuild} : MachinesIn(u, g)

\* The room directory is reference data kept by the ingestion, outside this
\* repository's chat commands: rooms come and go.
RoomsChange(D) ==
    /\ \E rs \in D : rs # rooms /\ rooms' = rs
    /\ UNCHANGED <<discord, view, reply>>
    /\ UNCHANGED mvars

\* One caller reconciles one snapshot after the other.
Next ==
    \/ Lookup(Main, Snapshots)
    \/ DecideCreate(Main)
    \/ DecideUpdate(Main)
    \/ NoChange(Main)
    \/ Create(Main)
    \/ Update(Main)
    \/ Tick

Spec == Init /\ [][Next]_vars

\* Two callers reconcile concurrently.
RaceNext ==
    \/ \E p \in Procs : Lookup(p, RaceSnapshots)
    \/ \E p \in Procs : DecideCreate(p)
    \/ \E p \in Procs : DecideUpdate(p)
    \/ \E p \in Procs : NoChange(p)
    \/ \E p \in Procs : Create(p)
    \/ \E p \in Procs : Update(p)
    \/ Tick

RaceSpec == Init /\ [][RaceNext]_vars

\* The users of the chat choose their rooms.
RoomNext ==
    \/ \E u \in Users : SetUserRoom(u)
    \/ \E u \in Users : SetServerRoom(u)
    \/ \E u \in Users : RoomSelectCallback(u, RoomIds \cup {"none"})
    \/ RoomsChange(Directories)

RoomSpec == Init /\ [][RoomNext]_vars

\* The directories of the paging: see PagedDirectories.  The users open
\* views and press Previous and Next while the directory changes.
PageNext ==
    \/ \E u \in Users : SetUserRoom(u)
    \/ \E u \in Users : SetServerRoom(u)
    \/ \E u \in Users : \E is_next \in BOOLEAN : PaginationButtonCallback(u, is_next)
    \/ RoomsChange(PagedDirectories)

PageSpec == Init /\ [][PageNext]_vars

\* The whole application: one caller reconciles the snapshots of one machine
\* while one user of the chat runs every command, within one tick of the
\* clock.
AppUsers == {"u1"}
AppSnapshots ==
    {d \in Snapshots : /\ d.opaqueId = "W1"
                       /\ d.timeRemaining \in {-1, 0, AttributionJump + 1}
                       /\ d.lastUser = Unknown
                       /\ d.mode = "idle"}
AppDirectories == {FirstRooms(n) : n \in {0, 1, PageSize + 1}}
AppPicks == {RoomOrder[1], RoomOrder[PageSize + 1], "none"}

AppNext ==
    \/ Lookup(Main, AppSnapshots)
    \/ DecideCreate(Main)
    \/ DecideUpdate(Main)
    \/ NoChange(Main)
    \/ Create(Main)
    \/ Update(Main)
    \/ \E u \in AppUsers : SetUserRoom(u)
    \/ \E u \in AppUsers : SetServerRoom(u)
    \/ \E u \in AppUsers : RoomSelectCallback(u, AppPicks)
    \/ \E u \in AppUsers : \E is_next \in BOOLEAN : PaginationButtonCallback(u, is_next)
    \/ \E u \in AppUsers : MachinesCommand(u)
    \/ RoomsChange(AppDirectories)

AppSpec == Init /\ [][AppNext]_vars

\* ------------------------------------------------- claim as one atomic call

\* The table after Machine.claim(d) has run alone, from lookup to return, with
\* the clock at now (database.py:151-167).
ClaimStore(tbl, d, now) ==
    LET e == Read(GetOrNone(tbl, d.opaqueId))
    IN  IF e = NoRow
        THEN IF CreateRejects(StampCreate(d, now))
             THEN tbl
             ELSE CreateRows(tbl, StampCreate(d, now))
        ELSE IF Changed(d, e)
             THEN UpdateRows(tbl, StampUpdate(d, e, now), d.opaqueId)
             ELSE tbl

\* ----------------------------------------------------------------- helpers

\* Caller p takes a step of its call.
Steps(p) == pc'[p] # pc[p]

Id(p) == snapshot[p].opaqueId

\* ------------------------------------------------------------------ claims

\* C1: every stored machine record has timeRemaining >= 0, whatever sequence
\* of snapshots (negative ones included) has been claimed.
C1_NonNegative ==
    \A id \in OpaqueIds : \A i \in 1..Len(machines[id]) :
        machines[id][i].timeRemaining >= 0

\* C2: a call with a snapshot of timeRemaining < 0 ends in an error and
\* leaves the store exactly as it was.
C2_NegativeRejected ==
    [][\A p \in Procs :
          (/\ pc[p] \in {"looked", "create", "update"}
           /\ snapshot[p].timeRemaining < 0
           /\ pc'[p] \in Returned)
          => (pc'[p] = "rejected" /\ machines' = machines)]_vars

\* C3: two calls for the same opaqueId never both decide to write on the
\* strength of the same previously stored timeRemaining (or of the same
\* absence of a record).
C3_AtomicPerMachine ==
    \A p, q \in Procs :
        ~(/\ p # q
          /\ pc[p] \in {"create", "update"}
          /\ pc[q] \in {"create", "update"}
          /\ Id(p) = Id(q)
          /\ existing[p] = existing[q])

\* C4: the store holds at most one record per opaqueId.
C4_OneRecordPerMachine ==
    \A id \in OpaqueIds : Len(machines[id]) <= 1

\* The record a first sighting is to create from the snapshot p passed.
C5_CreateRow(p) ==
    [opaqueId |-> snapshot[p].opaqueId,
     timeRemaining |-> snapshot[p].timeRemaining,
     lastUser |-> Unknown,
     lastUpdated |-> data[p].lastUpdated,
     mode |-> snapshot[p].mode]

\* C5: a snapshot with timeRemaining >= 0 for an opaqueId whose lookup found
\* no record creates one record: lastUser "Unknown" whatever the snapshot
\* carries, lastUpdated the time the call read, the rest as in the snapshot.
C5_FirstSighting ==
    [][\A p \in Procs :
          /\ (pc[p] = "looked" /\ existing[p] = NoRow /\ Steps(p))
                => (pc'[p] = "create" /\ data'[p].lastUpdated = clock)
          /\ (pc[p] = "create" /\ snapshot[p].timeRemaining >= 0 /\ Steps(p))
                => /\ pc'[p] = "created"
                   /\ machines' = [machines EXCEPT
                                      ![Id(p)] = Append(@, C5_CreateRow(p))]]_vars

\* C5 witness: a first sighting that carried lastUser "Alice" has created its
\* record, at time 1, with lastUser "Unknown".
C5_Witness ==
    /\ pc[Main] = "created"
    /\ snapshot[Main].lastUser = "Alice"
    /\ snapshot[Main].mode = "running"
    /\ clock = 1
    /\ machines[Id(Main)] =
          <<[opaqueId |-> Id(Main),
             timeRemaining |-> snapshot[Main].timeRemaining,
             lastUser |-> Unknown, lastUpdated |-> 1, mode |-> "running"]>>

\* Once a call has returned, claiming its snapshot again changes nothing.
C6_Idempotent ==
    \A p \in Procs :
        pc[p] \in {"created", "updated", "unchanged", "rejected"}
        => \A now \in clock..MaxClock :
              ClaimStore(machines, snapshot[p], now) = machines

\* C6: a snapshot whose timeRemaining equals that of the record found changes
\* no field of any record, although its other attributes differ; and claiming
\* a snapshot twice in a row leaves the store that claiming it once leaves.
C6_NoOp ==
    /\ []C6_Idempotent
    /\ [][\A p \in Procs :
            (/\ pc[p] = "looked"
             /\ existing[p] # NoRow
             /\ snapshot[p].timeRemaining = existing[p].timeRemaining
             /\ Steps(p))
            => (pc'[p] = "unchanged" /\ machines' = machines)]_vars

\* C6 witness: a call returned False for a snapshot whose mode and lastUser
\* differ from the stored ones; the record kept them and its older lastUpdated.
C6_Witness ==
    /\ pc[Main] = "unchanged"
    /\ Len(machines[Id(Main)]) = 1
    /\ machines[Id(Main)][1].timeRemaining = snapshot[Main].timeRemaining
    /\ machines[Id(Main)][1].mode # snapshot[Main].mode
    /\ machines[Id(Main)][1].lastUser = Unknown
    /\ snapshot[Main].lastUser = "Alice"
    /\ machines[Id(Main)][1].lastUpdated < clock

\* C7: when the snapshot's timeRemaining exceeds that of the record found by
\* more than 5, the call updates and stores lastUser "Unknown" and the
\* snapshot's timeRemaining, whatever lastUser the snapshot carries.
C7_JumpIsUnknown ==
    [][\A p \in Procs :
          /\ (/\ pc[p] = "looked"
              /\ existing[p] # NoRow
              /\ snapshot[p].timeRemaining - existing[p].timeRemaining > 5
              /\ Steps(p))
             => pc'[p] = "update"
          /\ (/\ pc[p] = "update"
              /\ snapshot[p].timeRemaining - existing[p].timeRemaining > 5
              /\ Steps(p))
             => /\ pc'[p] = "updated"
                /\ Len(machines'[Id(p)]) >= 1
                /\ \A i \in 1..Len(machines'[Id(p)]) :
                      /\ machines'[Id(p)][i].lastUser = Unknown
                      /\ machines'[Id(p)][i].timeRemaining
                            = snapshot[p].timeRemaining]_vars

\* C7 witness: stored 0, snapshot 6 with lastUser "Alice": stored "Unknown".
C7_Witness ==
    /\ pc[Main] = "updated"
    /\ existing[Main] = [timeRemaining |-> 0]
    /\ snapshot[Main].timeRemaining = 6
    /\ snapshot[Main].lastUser = "Alice"
    /\ Len(machines[Id(Main)]) = 1
    /\ machines[Id(Main)][1].lastUser = Unknown
    /\ machines[Id(Main)][1].timeRemaining = 6

Alone(tbl, id) == [k \in DOMAIN tbl |-> IF k = id THEN tbl[k] ELSE <<>>]

\* Whatever the other caller is doing, a caller can take its next step.
C9_NeverWaits ==
    \A p \in Procs :
        /\ pc[p] \in Returned => ENABLED Lookup(p, RaceSnapshots)
        /\ pc[p] = "looked"
              => ENABLED (DecideCreate(p) \/ DecideUpdate(p) \/ NoChange(p))
        /\ pc[p] = "create" => ENABLED Create(p)
        /\ pc[p] = "update" => ENABLED Update(p)

\* C9: calls for two distinct opaqueIds are independent: a caller can always
\* take its next step whatever the other is doing, a step of a call for one
\* opaqueId leaves the records of every other opaqueId as they were, and what
\* it reads and writes is what it would read and write were the records of
\* its own opaqueId the only ones stored.
C9_Independent ==
    /\ []C9_NeverWaits
    /\ [][\A p \in Procs : Steps(p) =>
            /\ \A id \in OpaqueIds \ {snapshot'[p].opaqueId} :
                  machines'[id] = machines[id]
            /\ pc'[p] = "looked" =>
                  existing'[p] = Read(GetOrNone(Alone(machines, Id(p)'), Id(p)'))
            /\ pc'[p] = "created" =>
                  machines'[Id(p)] =
                     CreateRows(Alone(machines, Id(p)), data[p])[Id(p)]
            /\ pc'[p] = "updated" =>
                  machines'[Id(p)] =
                     UpdateRows(Alone(machines, Id(p)), data[p], Id(p))[Id(p)]]_vars

\* C9 witness: p2 has updated one machine, with a later time stamp, while p1
\* was between its lookup and its write for the other machine.
C9_Witness ==
    /\ pc["p1"] = "update"
    /\ pc["p2"] = "updated"
    /\ Id("p1") # Id("p2")
    /\ data["p1"].lastUpdated < data["p2"].lastUpdated
    /\ machines[Id("p2")][1].lastUpdated = data["p2"].lastUpdated

\* The rooms the table associates with an actor.
RoomsFor(tbl, id) == {r.roomId : r \in {x \in tbl : x.discordId = id}}

\* An actor has at most one association.
C10_OnePerActor ==
    \A id \in Users \cup Guilds :
        Cardinality({r \in discord : r.discordId = id}) <= 1

\* C10: the room default association is last-write-wins per actor: an actor
\* (a user, or a guild for a server view) has at most one association; a
\* selection of a room makes it that actor's association and leaves those of
\* the other actors as they were; selecting "none" writes nothing; and nothing
\* but a selection writes.
C10_LastWriteWins ==
    /\ []C10_OnePerActor
    /\ [][/\ \A u \in Users :
               (view[u] # NoView /\ view' = view /\ reply'[u] # reply[u])
               => IF reply'[u].text = "set"
                  THEN /\ RoomsFor(discord', DiscordId(u)) = {reply'[u].room}
                       /\ \A id \in (Users \cup Guilds) \ {DiscordId(u)} :
                             RoomsFor(discord', id) = RoomsFor(discord, id)
                  ELSE discord' = discord
          /\ discord' # discord
               => \E u \in Users : /\ view[u] # NoView
                                   /\ view' = view
                                   /\ reply'[u].text = "set"]_vars

\* C10 witness: u1 chose r1 for themself, then r1 for the guild, and u2 then
\* chose r2 for the guild: the guild has r2 alone, u1 keeps r1.
C10_Witness ==
    /\ view["u1"] # NoView /\ view["u1"].is_guild
    /\ view["u2"] # NoView /\ view["u2"].is_guild
    /\ reply["u1"] = [text |-> "set", room |-> "r1"]
    /\ reply["u2"] = [text |-> "set", room |-> "r2"]
    /\ discord = {[discordId |-> "g1", roomId |-> "r2"],
                  [discordId |-> "u1", roomId |-> "r1"]}

\* C11: when a record exists and the snapshot's timeRemaining (>= 0) differs
\* from the one found, the call reads the clock and goes on to update, and the
\* update rewrites the record in place: no record is added or removed, and the
\* record has the snapshot's timeRemaining and operational attributes, the
\* time the call read as lastUpdated, and the opaqueId it had.
C11_OverwriteInPlace ==
    [][\A p \in Procs :
          /\ (/\ pc[p] = "looked"
              /\ existing[p] # NoRow
              /\ snapshot[p].timeRemaining >= 0
              /\ snapshot[p].timeRemaining # existing[p].timeRemaining
              /\ Steps(p))
             => (pc'[p] = "update" /\ data'[p].lastUpdated = clock)
          /\ (/\ pc[p] = "update"
              /\ snapshot[p].timeRemaining >= 0
              /\ Steps(p))
             => /\ pc'[p] = "updated"
                /\ Len(machines'[Id(p)]) = Len(machines[Id(p)])
                /\ Len(machines'[Id(p)]) >= 1
                /\ \A i \in 1..Len(machines'[Id(p)]) :
                      /\ machines'[Id(p)][i].opaqueId = Id(p)
                      /\ machines[Id(p)][i].opaqueId = Id(p)
                      /\ machines'[Id(p)][i].timeRemaining
                            = snapshot[p].timeRemaining
                      /\ machines'[Id(p)][i].mode = snapshot[p].mode
                      /\ machines'[Id(p)][i].lastUpdated
                            = data[p].lastUpdated]_vars

\* C11 witness: a record stored at time 0 has been rewritten at time 1 by a
\* snapshot that lowers timeRemaining from 5 to 0 and reports mode "running".
C11_Witness ==
    /\ pc[Main] = "updated"
    /\ existing[Main] = [timeRemaining |-> 5]
    /\ snapshot[Main].timeRemaining = 0
    /\ snapshot[Main].mode = "running"
    /\ snapshot[Main].lastUser = "Alice"
    /\ machines[Id(Main)] =
          <<[opaqueId |-> Id(Main), timeRemaining |-> 0, lastUser |-> "Alice",
             lastUpdated |-> 1, mode |-> "running"]>>

\* C12: a call returns True (it created or updated) exactly when the store
\* after the call differs from the store before it, and False exactly when
\* the store is as it was; the store does not change between the call's
\* lookup and the step on which it returns.
C12_TrueIffWritten ==
    [][\A p \in Procs : Steps(p) =>
          /\ pc'[p] \in {"created", "updated"} => machines' # machines
          /\ pc'[p] = "unchanged" => machines' = machines
          /\ pc'[p] \in {"looked", "create", "update"}
                => machines' = machines]_vars

\* C12 witness: a call returned True for a snapshot that differs from the
\* stored record in timeRemaining alone, at the time the record was stored.
C12_Witness ==
    /\ pc[Main] = "updated"
    /\ clock = 0
    /\ existing[Main] = [timeRemaining |-> 0]
    /\ snapshot[Main].timeRemaining = 5
    /\ snapshot[Main].lastUser = Unknown
    /\ machines[Id(Main)] =
          <<[opaqueId |-> Id(Main), timeRemaining |-> 5, lastUser |-> Unknown,
             lastUpdated |-> 0, mode |-> snapshot[Main].mode]>>

\* C15: no write lowers the lastUpdated of a stored record.
C15_LastUpdatedMonotone ==
    [][\A id \in OpaqueIds :
          \A i \in 1..Len(machines[id]) :
             /\ i <= Len(machines'[id])
             /\ machines'[id][i].lastUpdated >= machines[id][i].lastUpdated]_vars

\* C13: once a record exists for an opaqueId, a record for that opaqueId
\* exists after every step of a call of Machine.claim and of a chat command.
C13_NeverDeleted ==
    [][\A id \in OpaqueIds :
          Len(machines[id]) >= 1
          => /\ Len(machines'[id]) >= Len(machines[id])
             /\ \A i \in 1..Len(machines'[id]) :
                   machines'[id][i].opaqueId = id]_vars

\* C13 witness: the record of W1 was shown by /machines as available, has
\* since been updated to 6 minutes, and the last call changed nothing.
C13_Witness ==
    /\ pc[Main] = "unchanged"
    /\ Len(machines["W1"]) = 1
    /\ machines["W1"][1].timeRemaining = AttributionJump + 1
    /\ reply["u1"].text = "status"
    /\ reply["u1"].room = "r1"
    /\ reply["u1"].embed["W1"] =
          <<[status |-> "available", minutes |-> 0, timestamp |-> 0]>>

\* C14: a step of a chat command or of a callback (it changes a view, a reply
\* or the room default associations) leaves the Machine and the Room table
\* as they were; the Machine table changes only on the writing step of a call
\* of Machine.claim, and the Room table only from outside the chat.
C14_PureReader ==
    [][/\ (view' # view \/ reply' # reply \/ discord' # discord)
             => (machines' = machines /\ rooms' = rooms)
       /\ machines' # machines
             => \E p \in Procs : /\ pc[p] \in {"create", "update"}
                                 /\ pc'[p] \in {"created", "updated"}
       /\ rooms' # rooms
             => (view' = view /\ reply' = reply /\ discord' = discord)]_vars

\* C14 witness: with a machine record and 26 rooms stored, the user chose a
\* room, paged forward and asked for the machines: all are still there.
C14_Witness ==
    /\ rooms = FirstRooms(PageSize + 1)
    /\ view["u1"] # NoView
    /\ view["u1"].current_page = 1
    /\ discord = {[discordId |-> "u1", roomId |-> "r1"]}
    /\ reply["u1"].text = "status"
    /\ reply["u1"].embed["W1"] =
          <<[status |-> "in use", minutes |-> AttributionJump + 1,
             timestamp |-> 0]>>
    /\ Len(machines["W1"]) = 1

\* C16 (first part): the select menu of every view shows a page within
\* 0..total_pages-1, and it is the view's current_page, also when the number
\* of rooms changes between presses of Previous and Next.
C16_PageInSync ==
    \A u \in Users :
        view[u] # NoView
        => /\ view[u].room_select.current_page
                 \in 0..(view[u].room_select.total_pages - 1)
           /\ view[u].room_select.current_page = view[u].current_page

\* The rooms the command resolves for u in g, in the order the claim gives.
C17_Resolved(u, g) ==
    IF RoomsFor(discord, u) # {} THEN RoomsFor(discord, u)
    ELSE IF g # NoGuild THEN RoomsFor(discord, g)
    ELSE {}

\* C17: /machines shows the room of the user's own association if there is
\* one, otherwise of the guild's when used in a guild; with neither it shows
\* no status and sends a room selection prompt; when the room resolved is not
\* in the directory it shows no status and asks for a new room.
C17_Resolution ==
    [][\A u \in Users : \A g \in Guilds \cup {NoGuild} :
          (/\ (reply'[u] # reply[u] \/ view'[u] # view[u])
           /\ MachinesIn(u, g)) =>
             /\ C17_Resolved(u, g) = {}
                   => /\ reply'[u].text = "no default"
                      /\ view'[u] # NoView
                      /\ ~view'[u].is_guild
                      /\ view'[u].current_page = 0
             /\ \A r \in C17_Resolved(u, g) :
                   IF r \in rooms
                   THEN /\ reply'[u].text = "status"
                        /\ reply'[u].room = r
                        /\ reply'[u].embed = Embed(machines, r)
                   ELSE reply'[u].text = "gone"]_vars

\* C17 witness: the user has no association of their own, the guild has one
\* for a room of the directory, and the machines of that room were shown.
C17_Witness ==
    /\ RoomsFor(discord, "u1") = {}
    /\ RoomsFor(discord, "g1") = {"r1"}
    /\ "r1" \in rooms
    /\ reply["u1"].text = "status"
    /\ reply["u1"].room = "r1"
    /\ reply["u1"].embed["W1"] # <<>>

====
